---- MODULE Spec2Model ----
(***************************************************************************)
(* Model of internal/adapter/lsp/server.go (zk language server):           *)
(*   - the diagnostics pipeline: didOpen / didChange / didClose handlers,  *)
(*     refreshDiagnosticsOfDocument and its background goroutine;          *)
(*   - the link resolver: noteForLink / noteForHref / noteMatchingTitle;   *)
(*   - completion, the other document handlers, workspace/executeCommand.  *)
(* The specifications of the module share its variables:                   *)
(*   Spec            the diagnostics state machine (handlers + goroutines) *)
(*   SpecResolve     the resolver applied to inputs drawn from bounded sets*)
(*   SpecCompletion  completion on a drawn line, configuration and catalog *)
(*   SpecLists       the loops over links and notes on a drawn index       *)
(*   SpecHandlers    all document handlers with the flag-clearing step     *)
(*   SpecCommand     a drawn command request executed on a drawn notebook  *)
(***************************************************************************)
EXTENDS Integers, Sequences, FiniteSets, TLC

VARIABLES
    store,      \* documentStore: URI -> id of the registered document (0: none)
    docs,       \* every *document ever created, by id: [uri, ver, body, flag]
    cycles,     \* background goroutines spawned at server.go:700, in spawn order
    published,  \* publishDiagnostics notifications, in the order the client gets them
    nReq,       \* history: calls of refreshDiagnosticsOfDocument
    nReqClear,  \* history: calls that found NeedsRefreshDiagnostics clear
    nbOk,       \* whether NotebookStore.Open finds the notebook of the document
    index,      \* the notebook index (collaborator): answers of its three queries
    relOk,      \* whether filepath.Rel(notebook.Path, path) succeeds
    deadLink,   \* notebook.Config.LSP.Diagnostics.DeadLink
    wikiTitle,  \* notebook.Config.LSP.Diagnostics.WikiTitle
    link,       \* SpecResolve: the link handed to noteForLink
    out,        \* SpecResolve: what the last resolver call returned and did
    line,       \* the text of the open document around the request position
    format,     \* notebook.Config.Format.Markdown: the tag styles enabled
    catalog,    \* what FindCollections and FindMinimalNotes answer
    resp,       \* the last request or command handled, with its response
    req,        \* SpecCommand: the workspace/executeCommand request sent
    files,      \* the notes of the notebook, by name
    calls       \* requests to the client sent by background goroutines

vars == <<store, docs, cycles, published, nReq, nReqClear,
          nbOk, index, relOk, deadLink, wikiTitle, link, out,
          line, format, catalog, resp, req, files, calls>>

diagVars == <<store, docs, cycles, published, nReq, nReqClear>>
cfgVars == <<nbOk, index, relOk, deadLink, wikiTitle>>
resVars == <<link, out>>
reqVars == <<line, format, catalog, resp>>
cmdVars == <<req, files, calls>>

----------------------------------------------------------------------------
(* Bounds of the model *)

MaxEvents == 3      \* didOpen and didChange notifications handled

(* core.LSPDiagnosticNone: the severity that disables a category *)
LSPDiagnosticNone == "none"
DeadLinkSeverities == {LSPDiagnosticNone, "error"}
WikiTitleSeverities == {LSPDiagnosticNone, "hint"}

URIs == {"file:///a.md"}
DocDir == "."
Hrefs == {"http://e.com", "a", "b", ""}
URLHrefs == {"http://e.com"}
Notes == {1, 2, 3}
\* the title of each note of the index (core.MinimalNote.Title)
Titles == [n \in Notes |-> "title of note " \o ToString(n)]

----------------------------------------------------------------------------
(* The notebook index: what FindByHref / FindMatching answer *)

NilAns == [note |-> 0, err |-> FALSE]
ErrAns == [note |-> 0, err |-> TRUE]
NoteAns(n) == [note |-> n, err |-> FALSE]
Answers == {NilAns, ErrAns} \cup {NoteAns(n) : n \in Notes}

\* the cleaned path of href joined to the document's directory
PathKey(dir, href) == <<dir, href>>
Keys == {PathKey(DocDir, h) : h \in Hrefs}

ConstIndex(a, b, c) ==
    [exact |-> [k \in Keys |-> a], partial |-> [h \in Hrefs |-> b],
     title |-> [h \in Hrefs |-> c]]

\* the index of the diagnostics specification: "a" is a note, "b" is dead
DiagIndex ==
    [exact |-> [k \in Keys |-> IF k[2] = "a" THEN NoteAns(1) ELSE NilAns],
     partial |-> [h \in Hrefs |-> NilAns],
     title |-> [h \in Hrefs |-> NilAns]]

QExact == "FindByHref(partial=false)"
QPartial == "FindByHref(partial=true)"
QTitle == "FindMatching"

----------------------------------------------------------------------------
(* Link resolver *)

IsURL(href) == href \in URLHrefs

\* variant: the lookup error is logged and then dropped (reported as "not found")
noteForHrefSwallowsError(href, dir, ix, rel) ==
    IF IsURL(href)
    THEN [note |-> 0, err |-> FALSE, queries |-> <<>>, logs |-> <<>>]
    ELSE IF ~rel
    THEN [note |-> 0, err |-> TRUE, queries |-> <<>>, logs |-> <<>>]
    ELSE LET a == ix.exact[PathKey(dir, href)]
         IN [note |-> a.note, err |-> FALSE, queries |-> <<QExact>>,
             logs |-> IF a.err THEN <<"findByHref">> ELSE <<>>]

noteForHref(href, dir, ix, rel) ==
    IF IsURL(href)
    THEN [note |-> 0, err |-> FALSE, queries |-> <<>>, logs |-> <<>>]
    ELSE IF ~rel
    THEN [note |-> 0, err |-> TRUE, queries |-> <<>>, logs |-> <<>>]
    ELSE LET a == ix.exact[PathKey(dir, href)]
         IN [note |-> a.note, err |-> a.err, queries |-> <<QExact>>,
             logs |-> IF a.err THEN <<"findByHref">> ELSE <<>>]

noteMatchingTitle(terms, ix) ==
    IF terms = ""
    THEN [note |-> 0, err |-> FALSE, queries |-> <<>>, logs |-> <<>>]
    ELSE LET a == ix.title[terms]
         IN [note |-> a.note, err |-> a.err, queries |-> <<QTitle>>,
             logs |-> IF a.err THEN <<"findMatching">> ELSE <<>>]

\* the fallbacks of noteForLink, parameterised for the variants below:
\* wiki: whether the link is treated as wiki-style; keep: whether a note found
\* by the exact lookup ends the search
noteForLinkWith(lk, dir, ix, rel, wiki, keep) ==
    LET r1 == noteForHref(lk.Href, dir, ix, rel)
        tryPartial == (r1.note = 0 \/ ~keep) /\ ~r1.err /\ wiki
        p == ix.partial[lk.Href]
        r2 == IF tryPartial
              THEN [note |-> p.note, err |-> p.err,
                    queries |-> Append(r1.queries, QPartial), logs |-> r1.logs]
              ELSE r1
        tryTitle == tryPartial /\ r2.note = 0 /\ ~r2.err
        t == noteMatchingTitle(lk.Href, ix)
        r3 == IF tryTitle
              THEN [note |-> t.note, err |-> t.err,
                    queries |-> r2.queries \o t.queries, logs |-> r2.logs \o t.logs]
              ELSE r2
    IN IF r3.note = 0 \/ r3.err
       THEN [note |-> 0, err |-> r3.err, queries |-> r3.queries, logs |-> r3.logs]
       ELSE [note |-> r3.note, err |-> FALSE, queries |-> r3.queries, logs |-> r3.logs]

\* variant: the partial match is tried even when the exact lookup found a note
noteForLinkNoShortCircuit(lk, dir, ix, rel) ==
    noteForLinkWith(lk, dir, ix, rel, lk.IsWikiLink, FALSE)

\* variant: every link falls back like a wiki-style link
noteForLinkIgnoresStyle(lk, dir, ix, rel) ==
    noteForLinkWith(lk, dir, ix, rel, TRUE, TRUE)

noteForLink(lk, dir, ix, rel) ==
    LET r1 == noteForHref(lk.Href, dir, ix, rel)
        tryPartial == r1.note = 0 /\ ~r1.err /\ lk.IsWikiLink
        p == ix.partial[lk.Href]
        r2 == IF tryPartial
              THEN [note |-> p.note, err |-> p.err,
                    queries |-> Append(r1.queries, QPartial), logs |-> r1.logs]
              ELSE r1
        tryTitle == tryPartial /\ r2.note = 0 /\ ~r2.err
        t == noteMatchingTitle(lk.Href, ix)
        r3 == IF tryTitle
              THEN [note |-> t.note, err |-> t.err,
                    queries |-> r2.queries \o t.queries, logs |-> r2.logs \o t.logs]
              ELSE r2
    IN IF r3.note = 0 \/ r3.err
       THEN [note |-> 0, err |-> r3.err, queries |-> r3.queries, logs |-> r3.logs]
       ELSE [note |-> r3.note, err |-> FALSE, queries |-> r3.queries, logs |-> r3.logs]

----------------------------------------------------------------------------
(* Documents and their links *)

Link(href, wiki, title, rng) ==
    [Href |-> href, IsWikiLink |-> wiki, HasTitle |-> title, Range |-> rng]

\* the texts a document can hold, each given by the links it contains
Texts ==
    << <<>>,
       << Link("http://e.com", TRUE, FALSE, 1), Link("a", TRUE, FALSE, 2),
          Link("b", FALSE, FALSE, 3) >> >>
Bodies == 1..Len(Texts)

\* document.DocumentLinks(): the links of the current text
DocumentLinks(body) == Texts[body]

Diagnostic(lk, severity, message) ==
    [Range |-> lk.Range, Severity |-> severity, Source |-> "zk", Message |-> message]

\* variant: a resolved link gets its title diagnostic whether or not it has an
\* explicit title
diagnoseLinkIgnoresTitle(lk, dir, ix, rel, dl, wt) ==
    IF IsURL(lk.Href)
    THEN [diags |-> <<>>, queries |-> <<>>, logs |-> <<>>]
    ELSE LET target == noteForLink(lk, dir, ix, rel)
         IN IF target.err
            THEN [diags |-> <<>>, queries |-> target.queries,
                  logs |-> Append(target.logs, "err")]
            ELSE IF target.note = 0
            THEN [diags |-> IF dl = LSPDiagnosticNone THEN <<>>
                            ELSE << Diagnostic(lk, dl, "not found") >>,
                  queries |-> target.queries, logs |-> target.logs]
            ELSE [diags |-> IF wt = LSPDiagnosticNone THEN <<>>
                            ELSE << Diagnostic(lk, wt, Titles[target.note]) >>,
                  queries |-> target.queries, logs |-> target.logs]

\* one iteration of the loop of refreshDiagnosticsOfDocument over a link:
\* the diagnostics it appends, the index queries it issues, what it logs
diagnoseLink(lk, dir, ix, rel, dl, wt) ==
    IF IsURL(lk.Href)
    THEN [diags |-> <<>>, queries |-> <<>>, logs |-> <<>>]
    ELSE LET target == noteForLink(lk, dir, ix, rel)
         IN IF target.err
            THEN [diags |-> <<>>, queries |-> target.queries,
                  logs |-> Append(target.logs, "err")]
            ELSE IF target.note = 0
            THEN [diags |-> IF dl = LSPDiagnosticNone THEN <<>>
                            ELSE << Diagnostic(lk, dl, "not found") >>,
                  queries |-> target.queries, logs |-> target.logs]
            ELSE [diags |-> IF lk.HasTitle \/ wt = LSPDiagnosticNone THEN <<>>
                            ELSE << Diagnostic(lk, wt, Titles[target.note]) >>,
                  queries |-> target.queries, logs |-> target.logs]

RECURSIVE diagnoseLinks(_, _, _, _, _, _)
diagnoseLinks(links, dir, ix, rel, dl, wt) ==
    IF links = <<>>
    THEN [diags |-> <<>>, queries |-> <<>>, logs |-> <<>>]
    ELSE LET h == diagnoseLink(Head(links), dir, ix, rel, dl, wt)
             t == diagnoseLinks(Tail(links), dir, ix, rel, dl, wt)
         IN [diags |-> h.diags \o t.diags, queries |-> h.queries \o t.queries,
             logs |-> h.logs \o t.logs]

----------------------------------------------------------------------------
(* Diagnostics: the document store, the handlers, the background goroutine *)
(*                                                                         *)
(* Handlers run one at a time (one action each); the goroutine started at  *)
(* server.go:700 and the one started at server.go:747 run concurrently     *)
(* with them, one action per step that touches shared state. The flag and  *)
(* the text are shared without synchronisation: a racing read returns the  *)
(* value before or after the write, which the interleaving of the actions  *)
(* covers. No step is bounded in time: the debounce sleep delays a cycle   *)
(* but orders nothing. documents.DidOpen returning an error or no document *)
(* and didChange for a URI that is not open change nothing (no step).      *)

NewDocument(uri, body) == [uri |-> uri, ver |-> 0, body |-> body, flag |-> FALSE]

\* document.ApplyChanges: the text becomes the next version
ApplyChanges(ds, d, body) == [ds EXCEPT ![d].ver = @ + 1, ![d].body = body]

NewCycle(d, delay) ==
    [doc |-> d, delay |-> delay, pc |-> "start", ver |-> 0, body |-> 0,
     diags |-> <<>>, nq |-> 0]

NoDiagnosticEnabled(wt, dl) == wt = LSPDiagnosticNone /\ dl = LSPDiagnosticNone

\* variant: no reentrancy guard, a request spawns a goroutine whatever the flag
refreshWithoutGuard(ds, cs, d, delay) ==
    IF ~nbOk
    THEN [docs |-> ds, cycles |-> cs]
    ELSE IF NoDiagnosticEnabled(wikiTitle, deadLink)
    THEN [docs |-> ds, cycles |-> cs]
    ELSE [docs |-> [ds EXCEPT ![d].flag = TRUE],
          cycles |-> Append(cs, NewCycle(d, delay))]

\* variant: no severity gate, a cycle starts with both categories disabled
refreshWithoutGate(ds, cs, d, delay) ==
    IF ds[d].flag
    THEN [docs |-> ds, cycles |-> cs]
    ELSE IF ~nbOk
    THEN [docs |-> ds, cycles |-> cs]
    ELSE [docs |-> [ds EXCEPT ![d].flag = TRUE],
          cycles |-> Append(cs, NewCycle(d, delay))]

\* refreshDiagnosticsOfDocument up to the go statement: the documents and the
\* goroutines after the call
refreshDiagnosticsOfDocument(ds, cs, d, delay) ==
    IF ds[d].flag
    THEN [docs |-> ds, cycles |-> cs]
    ELSE IF ~nbOk
    THEN [docs |-> ds, cycles |-> cs]
    ELSE IF NoDiagnosticEnabled(wikiTitle, deadLink)
    THEN [docs |-> ds, cycles |-> cs]
    ELSE [docs |-> [ds EXCEPT ![d].flag = TRUE],
          cycles |-> Append(cs, NewCycle(d, delay))]

Request(ds, d) ==
    /\ nReq' = nReq + 1
    /\ nReqClear' = IF ds[d].flag THEN nReqClear ELSE nReqClear + 1

TextDocumentDidOpen(uri, body) ==
    /\ nReq < MaxEvents
    /\ LET d == Len(docs) + 1
           ds == Append(docs, NewDocument(uri, body))
           r == refreshDiagnosticsOfDocument(ds, cycles, d, FALSE)
       IN /\ store' = [store EXCEPT ![uri] = d]
          /\ docs' = r.docs
          /\ cycles' = r.cycles
          /\ Request(ds, d)
    /\ UNCHANGED <<published, cfgVars, resVars, reqVars, cmdVars>>

TextDocumentDidChange(uri, body) ==
    /\ store[uri] # 0
    /\ nReq < MaxEvents
    /\ LET d == store[uri]
           ds == ApplyChanges(docs, d, body)
           r == refreshDiagnosticsOfDocument(ds, cycles, d, TRUE)
       IN /\ docs' = r.docs
          /\ cycles' = r.cycles
          /\ Request(ds, d)
    /\ UNCHANGED <<store, published, cfgVars, resVars, reqVars, cmdVars>>

\* variant: closing a document ends its goroutines that have not finished
DidCloseCancelsCycles(uri) ==
    /\ store[uri] # 0
    /\ store' = [store EXCEPT ![uri] = 0]
    /\ cycles' = [c \in DOMAIN cycles |->
                    IF cycles[c].doc = store[uri] /\ cycles[c].pc \in {"start", "compute", "notify"}
                    THEN [cycles[c] EXCEPT !.pc = "failed"]
                    ELSE cycles[c]]
    /\ UNCHANGED <<docs, published, nReq, nReqClear, cfgVars, resVars, reqVars, cmdVars>>

TextDocumentDidClose(uri) ==
    /\ store[uri] # 0
    /\ store' = [store EXCEPT ![uri] = 0]
    /\ UNCHANGED <<docs, cycles, published, nReq, nReqClear, cfgVars, resVars, reqVars, cmdVars>>

\* variant: the goroutine goes on to the computation with the flag still set
CycleKeepsFlag(c) ==
    /\ cycles[c].pc = "start"
    /\ cycles' = [cycles EXCEPT ![c].pc = "compute"]
    /\ UNCHANGED <<store, docs, published, nReq, nReqClear, cfgVars, resVars, reqVars, cmdVars>>

\* variant: the goroutine clears the flag only when it did not sleep
CycleClearsUndelayedOnly(c) ==
    /\ cycles[c].pc = "start"
    /\ docs' = [docs EXCEPT ![cycles[c].doc].flag = @ /\ cycles[c].delay]
    /\ cycles' = [cycles EXCEPT ![c].pc = "compute"]
    /\ UNCHANGED <<store, published, nReq, nReqClear, cfgVars, resVars, reqVars, cmdVars>>

\* server.go:701-704: the optional debounce sleep, then the flag is cleared
CycleClearFlag(c) ==
    /\ cycles[c].pc = "start"
    /\ docs' = [docs EXCEPT ![cycles[c].doc].flag = FALSE]
    /\ cycles' = [cycles EXCEPT ![c].pc = "compute"]
    /\ UNCHANGED <<store, published, nReq, nReqClear, cfgVars, resVars, reqVars, cmdVars>>

\* server.go:706-750: doc.DocumentLinks() on the live text (or its error), the
\* loop over the links, then go notify(...)
CycleCompute(c, ok) ==
    /\ cycles[c].pc = "compute"
    /\ LET d == docs[cycles[c].doc]
           r == diagnoseLinks(DocumentLinks(d.body), DocDir, index, relOk,
                              deadLink, wikiTitle)
       IN cycles' = IF ok
                    THEN [cycles EXCEPT ![c].pc = "notify", ![c].ver = d.ver,
                                        ![c].body = d.body, ![c].diags = r.diags,
                                        ![c].nq = Len(r.queries)]
                    ELSE [cycles EXCEPT ![c].pc = "failed"]
    /\ UNCHANGED <<store, docs, published, nReq, nReqClear, cfgVars, resVars, reqVars, cmdVars>>

\* variant: an empty diagnostic list is not published
NotifyOnlyNonEmpty(c) ==
    /\ cycles[c].pc = "notify"
    /\ published' = IF cycles[c].diags = <<>>
                    THEN published
                    ELSE Append(published,
                                [uri |-> docs[cycles[c].doc].uri, cycle |-> c,
                                 ver |-> cycles[c].ver, diags |-> cycles[c].diags])
    /\ cycles' = [cycles EXCEPT ![c].pc = "done"]
    /\ UNCHANGED <<store, docs, nReq, nReqClear, cfgVars, resVars, reqVars, cmdVars>>

\* the goroutine of server.go:747 delivers the notification
Notify(c) ==
    /\ cycles[c].pc = "notify"
    /\ published' = Append(published,
                           [uri |-> docs[cycles[c].doc].uri, cycle |-> c,
                            ver |-> cycles[c].ver, diags |-> cycles[c].diags])
    /\ cycles' = [cycles EXCEPT ![c].pc = "done"]
    /\ UNCHANGED <<store, docs, nReq, nReqClear, cfgVars, resVars, reqVars, cmdVars>>

NoLink == Link("", FALSE, FALSE, 0)
NoLine == [before |-> <<>>, after |-> <<>>]
NoFormat == [Hashtags |-> FALSE, ColonTags |-> FALSE, MultiwordTags |-> FALSE]
NoCatalog == [tags |-> <<>>, notes |-> <<>>]
NoResp == [op |-> "none"]
\* the state of the variables of the command executors where they play no part
NoCommand ==
    /\ req = [cmd |-> "none", args |-> <<>>]
    /\ files = <<>>
    /\ calls = {}
\* the state of the variables of the request handlers where they play no part
NoRequest ==
    /\ line = NoLine
    /\ format = NoFormat
    /\ catalog = NoCatalog
    /\ resp = NoResp
    /\ NoCommand
NoOut == [op |-> "none", note |-> 0, err |-> FALSE, queries |-> <<>>, logs |-> <<>>,
          diags |-> <<>>]

Init ==
    /\ store = [u \in URIs |-> 0]
    /\ docs = <<>>
    /\ cycles = <<>>
    /\ published = <<>>
    /\ nReq = 0
    /\ nReqClear = 0
    /\ nbOk \in BOOLEAN
    /\ index = DiagIndex
    /\ relOk = TRUE
    /\ deadLink \in DeadLinkSeverities
    /\ wikiTitle \in WikiTitleSeverities
    /\ link = NoLink
    /\ out = NoOut
    /\ NoRequest

Next ==
    \/ \E uri \in URIs, body \in Bodies : TextDocumentDidOpen(uri, body)
    \/ \E uri \in URIs, body \in Bodies : TextDocumentDidChange(uri, body)
    \/ \E uri \in URIs : TextDocumentDidClose(uri)
    \/ \E c \in DOMAIN cycles : CycleClearFlag(c)
    \/ \E c \in DOMAIN cycles, ok \in BOOLEAN : CycleCompute(c, ok)
    \/ \E c \in DOMAIN cycles : Notify(c)

Spec == Init /\ [][Next]_vars

\* The same machine under fair scheduling of the goroutines: the Go scheduler
\* runs every runnable goroutine and time.Sleep returns after its second, so a
\* goroutine at its first step takes it. The step stays enabled until it is
\* taken (nothing else moves a goroutine's pc), so weak fairness is enough.
\* Nothing is assumed of the later steps, nor of the client, which is under
\* no obligation to send notifications. Both diagnostic categories are
\* enabled: the severities decide what a cycle computes, not whether the
\* flag of a started cycle is cleared.
InitFair ==
    /\ Init
    /\ deadLink = "error"
    /\ wikiTitle = "hint"

Fairness ==
    \A c \in 1..MaxEvents : WF_vars(c \in DOMAIN cycles /\ CycleClearFlag(c))

SpecFair == InitFair /\ [][Next]_vars /\ Fairness

----------------------------------------------------------------------------
(* The resolver on drawn inputs: one link, one index, one configuration *)

Links == {Link(h, w, t, 1) : h \in Hrefs, w \in BOOLEAN, t \in BOOLEAN}

InitResolve ==
    /\ store = [u \in URIs |-> 0]
    /\ docs = <<>>
    /\ cycles = <<>>
    /\ published = <<>>
    /\ nReq = 0
    /\ nReqClear = 0
    /\ nbOk = TRUE
    /\ index \in {ConstIndex(a, b, c) : a \in Answers, b \in Answers, c \in Answers}
    /\ relOk \in BOOLEAN
    /\ deadLink \in DeadLinkSeverities
    /\ wikiTitle \in WikiTitleSeverities
    /\ link \in Links
    /\ out = NoOut
    /\ NoRequest

\* a handler (hover, definition, references, documentLink) resolves the link
ResolveLink ==
    /\ out.op = "none"
    /\ LET r == noteForLink(link, DocDir, index, relOk)
       IN out' = [op |-> "noteForLink", note |-> r.note, err |-> r.err,
                  queries |-> r.queries, logs |-> r.logs, diags |-> <<>>]
    /\ UNCHANGED <<diagVars, cfgVars, link, reqVars, cmdVars>>

\* a diagnostics cycle runs the body of its loop on the link
DiagnoseLink ==
    /\ out.op = "none"
    /\ LET r == diagnoseLink(link, DocDir, index, relOk, deadLink, wikiTitle)
       IN out' = [op |-> "diagnoseLink", note |-> 0, err |-> FALSE,
                  queries |-> r.queries, logs |-> r.logs, diags |-> r.diags]
    /\ UNCHANGED <<diagVars, cfgVars, link, reqVars, cmdVars>>

NextResolve == ResolveLink \/ DiagnoseLink

SpecResolve == InitResolve /\ [][NextResolve]_vars

----------------------------------------------------------------------------
(* Completion: trigger classification, link and tag completion lists *)
(*                                                                         *)
(* A text is a sequence of one-character strings. Only the line of the     *)
(* request position matters (look-behind and look-forward never cross a    *)
(* newline): line.before is the text of the line before the cursor,        *)
(* line.after the text after it. The completion templates are the default  *)
(* (none configured): the label of an item is the title of its note.       *)

MaxBefore == 3      \* characters of the line before the cursor

BeforeChars == {"[", "]", "(", "#", ":", "x"}
SeqsUpTo(S, n) == UNION {[1..k -> S] : k \in 0..n}
Befores == SeqsUpTo(BeforeChars, MaxBefore)
Afters ==
    { <<>>, <<"]">>, <<"]", "]">>, <<")", ")">>, <<"]", ")">>, <<"x", "]">>,
      <<"]", "]", "x">>, <<")", ")", "]">>, <<"x", "]", "]">> }
Lines == {[before |-> b, after |-> a] : b \in Befores, a \in Afters}

Formats ==
    {[Hashtags |-> h, ColonTags |-> c, MultiwordTags |-> m] :
        h \in BOOLEAN, c \in BOOLEAN, m \in BOOLEAN}

\* the tags of the notebook: names of one, two and three words
TagNames == << <<"a">>, <<"b", " ", "c">>, <<"d", " ", "e", " ", "f">> >>
\* the notes of the notebook; renders: whether the template context and the
\* link of the note can be built
NoteList(bad) == [i \in 1..3 |-> [id |-> i, renders |-> i \notin bad]]
\* err: FindCollections / FindMinimalNotes fail
Catalogs ==
    {[tags |-> TagNames, notes |-> NoteList(bad), err |-> FALSE] :
        bad \in {{}, {2}, {1, 3}}}
    \cup {[tags |-> TagNames, notes |-> NoteList({}), err |-> TRUE]}

\* uint32 (protocol.UInteger) as two 16-bit halves: the value is hi * 2^16 + lo
Half == 2^16
U32(n) == [hi |-> (n \div Half) % Half, lo |-> n % Half]
\* a + k and a - k in uint32 arithmetic, for 0 <= k < 2^16
U32Add(a, k) == [hi |-> (a.hi + ((a.lo + k) \div Half)) % Half, lo |-> (a.lo + k) % Half]
U32Sub(a, k) ==
    [hi |-> (a.hi - (IF a.lo < k THEN 1 ELSE 0)) % Half, lo |-> (a.lo - k) % Half]

\* document.LookBehind / LookForward: the n characters before / after the
\* position, clipped at the boundaries of the line
LookBehind(ln, n) ==
    IF Len(ln.before) <= n THEN ln.before
    ELSE SubSeq(ln.before, Len(ln.before) - n + 1, Len(ln.before))
LookForward(ln, n) ==
    IF Len(ln.after) <= n THEN ln.after ELSE SubSeq(ln.after, 1, n)

\* params.Position: the cursor
Position(ln) == [Line |-> 0, Character |-> U32(Len(ln.before))]

offsetPos(pos, offset) ==
    IF offset < 0
    THEN [pos EXCEPT !.Character = U32Sub(@, -offset)]
    ELSE [pos EXCEPT !.Character = U32Add(@, offset)]

rangeFromPosition(pos, startOffset, endOffset) ==
    [Start |-> offsetPos(pos, startOffset), End |-> offsetPos(pos, endOffset)]

MarkdownParens == "NewMarkdownLinkFormatter(onlyHref=true)"
DefaultFormatter == "notebook.NewLinkFormatter()"

newLinkFormatter(ln) ==
    IF LookBehind(ln, 3) = <<"]", "(", "(">> THEN MarkdownParens ELSE DefaultFormatter

\* variant: the closer after the cursor is never consumed
newTextEditForLinkNoCloser(note, ln, pos, linkFormatter) ==
    [NewText |-> [formatter |-> linkFormatter, note |-> note.id],
     Range |-> rangeFromPosition(pos, 0, 0)]

\* the text edit of a note that renders (the error paths are in newCompletionItem)
newTextEditForLink(note, ln, pos, linkFormatter) ==
    LET suffix == LookForward(ln, 2)
        endOffset == IF suffix = <<"]", "]">> \/ suffix = <<")", ")">> THEN 2 ELSE 0
    IN [NewText |-> [formatter |-> linkFormatter, note |-> note.id],
        Range |-> rangeFromPosition(pos, 0, endOffset)]

\* [err, item]
newCompletionItem(note, ln, pos, linkFormatter) ==
    IF ~note.renders
    THEN [err |-> TRUE, item |-> [Data |-> note.id]]
    ELSE [err |-> FALSE,
          item |-> [Data |-> note.id, Label |-> Titles[note.id],
                    TextEdit |-> newTextEditForLink(note, ln, pos, linkFormatter),
                    AdditionalTextEdits |->
                        << [NewText |-> "", Range |-> rangeFromPosition(pos, -2, 0)] >>]]

\* variant: the first note that fails to render ends the list
RECURSIVE linkItemsUntilError(_, _, _, _)
linkItemsUntilError(notes, ln, pos, linkFormatter) ==
    IF notes = <<>>
    THEN [items |-> <<>>, logs |-> <<>>]
    ELSE LET h == newCompletionItem(Head(notes), ln, pos, linkFormatter)
             t == linkItemsUntilError(Tail(notes), ln, pos, linkFormatter)
         IN IF h.err
            THEN [items |-> <<>>, logs |-> <<"err">>]
            ELSE [items |-> <<h.item>> \o t.items, logs |-> t.logs]

\* the loop of buildLinkCompletionList: [items, logs]
RECURSIVE linkItems(_, _, _, _)
linkItems(notes, ln, pos, linkFormatter) ==
    IF notes = <<>>
    THEN [items |-> <<>>, logs |-> <<>>]
    ELSE LET h == newCompletionItem(Head(notes), ln, pos, linkFormatter)
             t == linkItems(Tail(notes), ln, pos, linkFormatter)
         IN IF h.err
            THEN [items |-> t.items, logs |-> <<"err">> \o t.logs]
            ELSE [items |-> <<h.item>> \o t.items, logs |-> t.logs]

\* [err, items, logs, formatter]
buildLinkCompletionList(ln, cat) ==
    LET linkFormatter == newLinkFormatter(ln)
        r == linkItems(cat.notes, ln, Position(ln), linkFormatter)
    IN IF cat.err
       THEN [err |-> TRUE, items |-> <<>>, logs |-> <<>>, formatter |-> linkFormatter]
       ELSE [err |-> FALSE, items |-> r.items, logs |-> r.logs,
             formatter |-> linkFormatter]

Contains(name, ch) == \E i \in DOMAIN name : name[i] = ch

\* strings.ReplaceAll(name, " ", "\\ ")
RECURSIVE ReplaceAll(_)
ReplaceAll(name) ==
    IF name = <<>> THEN <<>>
    ELSE IF Head(name) = " " THEN <<"\\", " ">> \o ReplaceAll(Tail(name))
    ELSE <<Head(name)>> \o ReplaceAll(Tail(name))

\* variant: a hashtag name always gets the multi-word closer when it is enabled
buildInsertForTagAlwaysCloses(name, triggerChar, fmt) ==
    IF triggerChar = ":" THEN Append(name, ":")
    ELSE IF triggerChar = "#"
    THEN IF fmt.MultiwordTags THEN Append(name, "#") ELSE ReplaceAll(name)
    ELSE name

buildInsertForTag(name, triggerChar, fmt) ==
    IF triggerChar = ":" THEN Append(name, ":")
    ELSE IF triggerChar = "#"
    THEN IF Contains(name, " ")
         THEN IF fmt.MultiwordTags THEN Append(name, "#") ELSE ReplaceAll(name)
         ELSE name
    ELSE name

\* [err, items]
buildTagCompletionList(cat, triggerChar, fmt) ==
    IF cat.err
    THEN [err |-> TRUE, items |-> <<>>]
    ELSE [err |-> FALSE,
          items |-> [i \in DOMAIN cat.tags |->
                        [Label |-> cat.tags[i],
                         InsertText |-> buildInsertForTag(cat.tags[i], triggerChar, fmt)]]]

\* the response of a handler that finds no document for the URI
Miss(op, uri) ==
    [op |-> op, uri |-> uri, result |-> "nil", err |-> FALSE, effects |-> <<>>]

LinkCompletion(uri) ==
    LET r == buildLinkCompletionList(line, catalog)
    IN [op |-> "completion", uri |-> uri, result |-> IF r.err THEN "nil" ELSE "items",
        err |-> r.err, effects |-> <<"notebookOf", "FindMinimalNotes">>,
        kind |-> "link", formatter |-> r.formatter, items |-> r.items, logs |-> r.logs]

TagCompletion(uri, triggerChar) ==
    LET r == buildTagCompletionList(catalog, triggerChar, format)
    IN [op |-> "completion", uri |-> uri, result |-> IF r.err THEN "nil" ELSE "items",
        err |-> r.err, effects |-> <<"notebookOf", "FindCollections">>,
        kind |-> "tag", trigger |-> triggerChar, items |-> r.items]

NoCompletion(uri) ==
    [op |-> "completion", uri |-> uri, result |-> "nil", err |-> FALSE,
     effects |-> <<"notebookOf">>, kind |-> "none"]

\* variant: the tag triggers are honoured whatever the configured tag styles
CompletionIgnoresTagStyles(uri) ==
    IF store[uri] = 0 THEN Miss("completion", uri)
    ELSE IF ~nbOk
    THEN [op |-> "completion", uri |-> uri, result |-> "nil", err |-> TRUE,
          effects |-> <<"notebookOf">>, kind |-> "none"]
    ELSE IF LookBehind(line, 3) = <<"]", "(", "(">> THEN LinkCompletion(uri)
    ELSE IF LookBehind(line, 2) = <<"[", "[">> THEN LinkCompletion(uri)
    ELSE IF LookBehind(line, 1) = <<"#">> THEN TagCompletion(uri, "#")
    ELSE IF LookBehind(line, 1) = <<":">> THEN TagCompletion(uri, ":")
    ELSE NoCompletion(uri)

\* variant: a single "[" before the cursor starts link completion too
CompletionOnSingleBracket(uri) ==
    IF store[uri] = 0 THEN Miss("completion", uri)
    ELSE IF ~nbOk
    THEN [op |-> "completion", uri |-> uri, result |-> "nil", err |-> TRUE,
          effects |-> <<"notebookOf">>, kind |-> "none"]
    ELSE IF LookBehind(line, 3) = <<"]", "(", "(">> THEN LinkCompletion(uri)
    ELSE IF LookBehind(line, 1) = <<"[">> THEN LinkCompletion(uri)
    ELSE IF LookBehind(line, 1) = <<"#">> /\ format.Hashtags
    THEN TagCompletion(uri, "#")
    ELSE IF LookBehind(line, 1) = <<":">> /\ format.ColonTags
    THEN TagCompletion(uri, ":")
    ELSE NoCompletion(uri)

\* the response of handler.TextDocumentCompletion
Completion(uri) ==
    IF store[uri] = 0 THEN Miss("completion", uri)
    ELSE IF ~nbOk
    THEN [op |-> "completion", uri |-> uri, result |-> "nil", err |-> TRUE,
          effects |-> <<"notebookOf">>, kind |-> "none"]
    ELSE IF LookBehind(line, 3) = <<"]", "(", "(">> THEN LinkCompletion(uri)
    ELSE IF LookBehind(line, 2) = <<"[", "[">> THEN LinkCompletion(uri)
    ELSE IF LookBehind(line, 1) = <<"#">> /\ format.Hashtags
    THEN TagCompletion(uri, "#")
    ELSE IF LookBehind(line, 1) = <<":">> /\ format.ColonTags
    THEN TagCompletion(uri, ":")
    ELSE NoCompletion(uri)

TextDocumentCompletion(uri) ==
    /\ resp' = Completion(uri)
    /\ UNCHANGED <<diagVars, cfgVars, resVars, line, format, catalog, cmdVars>>

\* the document of the URI is open, its diagnostics are idle
InitCompletion ==
    /\ \E u \in URIs :
          /\ store = [v \in URIs |-> IF v = u THEN 1 ELSE 0]
          /\ docs = << NewDocument(u, 1) >>
    /\ cycles = <<>>
    /\ published = <<>>
    /\ nReq = 0
    /\ nReqClear = 0
    /\ nbOk \in BOOLEAN
    /\ index = DiagIndex
    /\ relOk = TRUE
    /\ deadLink = LSPDiagnosticNone
    /\ wikiTitle = LSPDiagnosticNone
    /\ link = NoLink
    /\ out = NoOut
    /\ line \in Lines
    /\ format \in Formats
    /\ catalog \in Catalogs
    /\ resp = NoResp
    /\ NoCommand

NextCompletion == \E uri \in URIs : TextDocumentCompletion(uri)

SpecCompletion == InitCompletion /\ [][NextCompletion]_vars

----------------------------------------------------------------------------
(* The other document-scoped handlers *)
(*                                                                         *)
(* A response records the result ("nil", "value" or "items"), whether an   *)
(* error is returned, and the collaborator calls the handler made, in      *)
(* order (effects). A position is given by the link it lies in: 0 for no   *)
(* link, -1 when doc.DocumentLinkAt fails.                                 *)

Response(op, uri, result, err, effects) ==
    [op |-> op, uri |-> uri, result |-> result, err |-> err, effects |-> effects]

Positions == -1..3
\* doc.DocumentLinkAt(pos): [link, found, err]
DocumentLinkAt(body, at) ==
    IF at = -1 THEN [found |-> FALSE, err |-> TRUE, link |-> NoLink]
    ELSE IF at \in DOMAIN DocumentLinks(body)
    THEN [found |-> TRUE, err |-> FALSE, link |-> DocumentLinks(body)[at]]
    ELSE [found |-> FALSE, err |-> FALSE, link |-> NoLink]

\* notebook.RelPath(doc.Path): the href of the document itself
DocHref == "a"

\* variant: the notebook is indexed without looking the document up
DidSaveWithoutDocument(uri) ==
    IF ~nbOk THEN Response("didSave", uri, "nil", FALSE, <<"notebookOf">>)
    ELSE Response("didSave", uri, "nil", FALSE, <<"notebookOf", "Index(force=false)">>)

\* handler.TextDocumentDidSave
DidSave(uri) ==
    IF store[uri] = 0 THEN Miss("didSave", uri)
    ELSE IF ~nbOk THEN Response("didSave", uri, "nil", FALSE, <<"notebookOf">>)
    ELSE Response("didSave", uri, "nil", FALSE, <<"notebookOf", "Index(force=false)">>)

\* handler.TextDocumentHover; read: whether ioutil.ReadFile succeeds
Hover(uri, at, read) ==
    IF store[uri] = 0 THEN Miss("hover", uri)
    ELSE LET l == DocumentLinkAt(docs[store[uri]].body, at)
             r == noteForLink(l.link, DocDir, index, relOk)
         IN IF ~l.found \/ l.err THEN Response("hover", uri, "nil", l.err, <<>>)
            ELSE IF ~nbOk THEN Response("hover", uri, "nil", TRUE, <<"notebookOf">>)
            ELSE IF r.err \/ r.note = 0
            THEN Response("hover", uri, "nil", r.err, <<"notebookOf">> \o r.queries)
            ELSE IF ~read
            THEN Response("hover", uri, "nil", TRUE,
                          <<"notebookOf">> \o r.queries \o <<"ReadFile">>)
            ELSE Response("hover", uri, "value", FALSE,
                          <<"notebookOf">> \o r.queries \o <<"ReadFile">>)
                 @@ [contents |-> r.note]

\* the loop of handler.TextDocumentDocumentLink: [items, queries]
RECURSIVE linkTargets(_, _, _, _)
linkTargets(links, dir, ix, rel) ==
    IF links = <<>>
    THEN [items |-> <<>>, queries |-> <<>>]
    ELSE LET r == noteForLink(Head(links), dir, ix, rel)
             t == linkTargets(Tail(links), dir, ix, rel)
         IN IF r.note = 0 \/ r.err
            THEN [items |-> t.items, queries |-> r.queries \o t.queries]
            ELSE [items |-> << [Range |-> Head(links).Range, Target |-> r.note] >>
                            \o t.items,
                  queries |-> r.queries \o t.queries]

\* handler.TextDocumentDocumentLink; parsed: whether doc.DocumentLinks() succeeds
DocumentLink(uri, parsed) ==
    IF store[uri] = 0 THEN Miss("documentLink", uri)
    ELSE IF ~parsed THEN Response("documentLink", uri, "nil", TRUE, <<>>)
    ELSE IF ~nbOk THEN Response("documentLink", uri, "nil", TRUE, <<"notebookOf">>)
    ELSE LET r == linkTargets(DocumentLinks(docs[store[uri]].body), DocDir, index, relOk)
         IN Response("documentLink", uri, "items", FALSE, <<"notebookOf">> \o r.queries)
            @@ [items |-> r.items]

\* handler.TextDocumentDefinition
Definition(uri, at) ==
    IF store[uri] = 0 THEN Miss("definition", uri)
    ELSE LET l == DocumentLinkAt(docs[store[uri]].body, at)
             r == noteForLink(l.link, DocDir, index, relOk)
         IN IF ~l.found \/ l.err THEN Response("definition", uri, "nil", l.err, <<>>)
            ELSE IF ~nbOk THEN Response("definition", uri, "nil", TRUE, <<"notebookOf">>)
            ELSE IF r.err \/ r.note = 0
            THEN Response("definition", uri, "nil", r.err, <<"notebookOf">> \o r.queries)
            ELSE Response("definition", uri, "value", FALSE, <<"notebookOf">> \o r.queries)
                 @@ [location |-> r.note]

\* handler.TextDocumentCodeAction; empty: isRangeEmpty(params.Range)
CodeAction(uri, empty) ==
    IF empty THEN Response("codeAction", uri, "nil", FALSE, <<>>)
    ELSE IF store[uri] = 0 THEN Miss("codeAction", uri)
    ELSE Response("codeAction", uri, "items", FALSE, <<>>)
         @@ [items |-> << [Command |-> "zk.new", Dir |-> DocDir],
                          [Command |-> "zk.new", Dir |-> ""] >>]

\* handler.TextDocumentReferences; found: whether notebook.FindNotes succeeds
References(uri, at, found) ==
    IF store[uri] = 0 THEN Miss("references", uri)
    ELSE IF ~nbOk THEN Response("references", uri, "nil", TRUE, <<"notebookOf">>)
    ELSE LET l == DocumentLinkAt(docs[store[uri]].body, at)
             lk == IF l.found THEN l.link ELSE Link(DocHref, FALSE, FALSE, 0)
             r == noteForLink(lk, DocDir, index, relOk)
         IN IF l.err THEN Response("references", uri, "nil", TRUE, <<"notebookOf">>)
            ELSE IF ~l.found /\ ~relOk
            THEN Response("references", uri, "nil", TRUE, <<"notebookOf">>)
            ELSE IF r.err \/ r.note = 0
            THEN Response("references", uri, "nil", r.err, <<"notebookOf">> \o r.queries)
            ELSE IF ~found
            THEN Response("references", uri, "nil", TRUE,
                          <<"notebookOf">> \o r.queries \o <<"FindNotes">>)
            ELSE Response("references", uri, "items", FALSE,
                          <<"notebookOf">> \o r.queries \o <<"FindNotes">>)
                 @@ [linkTo |-> r.note]

\* a request or a didSave notification is handled: the handler changes nothing
\* but what it answers
Handle(r) ==
    /\ resp' = r
    /\ UNCHANGED <<diagVars, cfgVars, resVars, line, format, catalog, cmdVars>>

\* variant: saving requests a refresh of the diagnostics, like a change
TextDocumentDidSaveRefreshes(uri) ==
    /\ resp' = DidSave(uri)
    /\ LET d == store[uri]
           r == refreshDiagnosticsOfDocument(docs, cycles, d, TRUE)
       IN IF d = 0 THEN UNCHANGED <<docs, cycles>>
          ELSE docs' = r.docs /\ cycles' = r.cycles
    /\ UNCHANGED <<store, published, nReq, nReqClear, cfgVars, resVars,
                   line, format, catalog, cmdVars>>

TextDocumentDidSave(uri) == Handle(DidSave(uri))
TextDocumentHover(uri, at, read) == Handle(Hover(uri, at, read))
TextDocumentDocumentLink(uri, parsed) == Handle(DocumentLink(uri, parsed))
TextDocumentDefinition(uri, at) == Handle(Definition(uri, at))
TextDocumentCodeAction(uri, empty) == Handle(CodeAction(uri, empty))
TextDocumentReferences(uri, at, found) == Handle(References(uri, at, found))

----------------------------------------------------------------------------
(* The loops over lists on drawn inputs: an open document whose first      *)
(* cycle has cleared the flag and is about to extract the links, a cursor  *)
(* behind "[[", any index, any catalog                                     *)

\* the answers of the exact lookup of "a" and of "b" and of the partial lookup
ListIndex(a, b, p) ==
    [exact |-> [k \in Keys |-> IF k[2] = "a" THEN a ELSE IF k[2] = "b" THEN b
                                ELSE NilAns],
     partial |-> [h \in Hrefs |-> p],
     title |-> [h \in Hrefs |-> NilAns]]

WikiLine == [before |-> <<"[", "[">>, after |-> <<>>]

InitLists ==
    /\ \E u \in URIs, body \in Bodies :
          /\ store = [v \in URIs |-> IF v = u THEN 1 ELSE 0]
          /\ docs = << NewDocument(u, body) >>
    /\ cycles = << [NewCycle(1, FALSE) EXCEPT !.pc = "compute"] >>
    /\ published = <<>>
    /\ nReq = 1
    /\ nReqClear = 1
    /\ nbOk = TRUE
    /\ index \in {ListIndex(a, b, p) : a \in Answers, b \in Answers, p \in Answers}
    /\ relOk \in BOOLEAN
    /\ deadLink \in DeadLinkSeverities
    /\ wikiTitle \in WikiTitleSeverities
    /\ ~NoDiagnosticEnabled(wikiTitle, deadLink)
    /\ link = NoLink
    /\ out = NoOut
    /\ line = WikiLine
    /\ format = NoFormat
    /\ catalog \in Catalogs
    /\ resp = NoResp
    /\ NoCommand

NextLists ==
    \/ \E c \in DOMAIN cycles, ok \in BOOLEAN : CycleCompute(c, ok)
    \/ \E c \in DOMAIN cycles : Notify(c)
    \/ \E uri \in URIs, parsed \in BOOLEAN : TextDocumentDocumentLink(uri, parsed)
    \/ \E uri \in URIs : TextDocumentCompletion(uri)

SpecLists == InitLists /\ [][NextLists]_vars

----------------------------------------------------------------------------
(* The handlers of the document notifications and requests. Of a          *)
(* diagnostics goroutine only the step that clears the flag is taken: it   *)
(* is the one step that writes what a handler reads (the later steps write *)
(* the goroutine's own result and the notifications, see Spec).            *)

InitHandlers ==
    /\ store = [u \in URIs |-> 0]
    /\ docs = <<>>
    /\ cycles = <<>>
    /\ published = <<>>
    /\ nReq = 0
    /\ nReqClear = 0
    /\ nbOk \in BOOLEAN
    /\ index = DiagIndex
    /\ relOk = TRUE
    /\ deadLink = "error"
    /\ wikiTitle = "hint"
    /\ link = NoLink
    /\ out = NoOut
    /\ line = WikiLine
    /\ format = NoFormat
    /\ catalog = [tags |-> TagNames, notes |-> NoteList({}), err |-> FALSE]
    /\ resp = NoResp
    /\ NoCommand

NextHandlers ==
    \/ \E uri \in URIs, body \in Bodies : TextDocumentDidOpen(uri, body)
    \/ \E uri \in URIs, body \in Bodies : TextDocumentDidChange(uri, body)
    \/ \E uri \in URIs : TextDocumentDidClose(uri)
    \/ \E uri \in URIs : TextDocumentDidSave(uri)
    \/ \E uri \in URIs : TextDocumentCompletion(uri)
    \/ \E uri \in URIs, at \in Positions, read \in BOOLEAN : TextDocumentHover(uri, at, read)
    \/ \E uri \in URIs, parsed \in BOOLEAN : TextDocumentDocumentLink(uri, parsed)
    \/ \E uri \in URIs, at \in Positions : TextDocumentDefinition(uri, at)
    \/ \E uri \in URIs, empty \in BOOLEAN : TextDocumentCodeAction(uri, empty)
    \/ \E uri \in URIs, at \in Positions, found \in BOOLEAN :
          TextDocumentReferences(uri, at, found)
    \/ \E c \in DOMAIN cycles : CycleClearFlag(c)

SpecHandlers == InitHandlers /\ [][NextHandlers]_vars

----------------------------------------------------------------------------
(* workspace/executeCommand: zk.index and zk.new *)
(*                                                                         *)
(* An argument is [type, str, dict]; the options dictionary has the keys   *)
(* of cmdNewOpts that the executor reads, the key force of zk.index, and   *)
(* valid: whether unmarshalJSON accepts it. The notebook is files: for     *)
(* each note name "none", "file" (on disk, not in the index) or "note" (on *)
(* disk and in the index). calls holds the requests to the client that a   *)
(* goroutine has still to send; identical pending requests are one.        *)

cmdIndex == "zk.index"
cmdNew == "zk.new"
Commands == {cmdIndex, cmdNew, "zk.list"}

NotebookPath == "/nb"
NoteTitles == {"", "t"}
NoteDirs == {"", "d"}
\* the name core.Notebook.NewNote resolves for the options
ResolvedName(title, dir) == <<dir, title>>
Names == {ResolvedName(t, d) : t \in NoteTitles, d \in NoteDirs}
FileStates == {"none", "file", "note"}

NoOpts ==
    [valid |-> TRUE, title |-> "", dir |-> "", date |-> "", edit |-> FALSE,
     insert |-> "", range |-> 0, force |-> FALSE]
\* insertLinkAtLocation: absent (insert "", range 0) or a URI and one of two ranges
Locations == {[uri |-> "", range |-> 0]} \cup {[uri |-> u, range |-> r] : u \in URIs, r \in {1, 2}}
Dicts ==
    {[valid |-> TRUE, title |-> "t", dir |-> d, date |-> dt, edit |-> e,
      insert |-> l.uri, range |-> l.range, force |-> FALSE] :
        d \in NoteDirs, dt \in {"", "someday"}, e \in BOOLEAN, l \in Locations}
    \cup {[NoOpts EXCEPT !.force = TRUE], [NoOpts EXCEPT !.valid = FALSE]}

StringArg(str) == [type |-> "string", str |-> str, dict |-> NoOpts]
NumberArg == [type |-> "number", str |-> "", dict |-> NoOpts]
DictArg(d) == [type |-> "dict", str |-> "", dict |-> d]
FirstArgs == {StringArg(NotebookPath), NumberArg}
SecondArgs == {NumberArg} \cup {DictArg(d) : d \in Dicts}
ArgLists ==
    {<<>>} \cup {<<a>> : a \in FirstArgs}
    \cup {<<a, b>> : a \in FirstArgs, b \in SecondArgs}
    \cup {<<a, b, NumberArg>> : a \in FirstArgs, b \in SecondArgs}

\* dateutil.TimeFromNatural: whether the date option parses
DateParses(date) == date = ""

\* the response of a command: result is "nil", "stats" (zk.index) or "path"
CommandResponse(op, result, err, effects, path, created) ==
    [op |-> op, uri |-> "", result |-> result, err |-> err, effects |-> effects,
     path |-> path, created |-> created]
CommandError(op, effects) ==
    CommandResponse(op, "nil", TRUE, effects, ResolvedName("", ""), FALSE)

\* executeCommandIndex: the response
executeCommandIndex(args) ==
    IF Len(args) = 0 THEN CommandError(cmdIndex, <<>>)
    ELSE IF args[1].type # "string" THEN CommandError(cmdIndex, <<>>)
    ELSE IF Len(args) = 2 /\ args[2].type # "dict" THEN CommandError(cmdIndex, <<>>)
    ELSE IF ~nbOk THEN CommandError(cmdIndex, <<"Open">>)
    ELSE LET force == Len(args) = 2 /\ args[2].dict.force
         IN CommandResponse(cmdIndex, "stats", FALSE,
                            <<"Open", IF force THEN "Index(force=true)"
                                      ELSE "Index(force=false)">>,
                            ResolvedName("", ""), FALSE)

\* notebook.NewNote; ok: the collaborator fails for no reason other than an
\* existing note: [err, exists, files]
NewNote(fs, name, ok) ==
    IF fs[name] # "none" THEN [err |-> TRUE, exists |-> TRUE, files |-> fs]
    ELSE IF ~ok THEN [err |-> TRUE, exists |-> FALSE, files |-> fs]
    ELSE [err |-> FALSE, exists |-> FALSE, files |-> [fs EXCEPT ![name] = "note"]]

\* notebook.FindNote(IncludePaths: name): whether the index has the note
FindNote(fs, name) == fs[name] = "note"

\* variant: an existing note is an error like any other
executeCommandNewNoFind(args, ok) ==
    LET opts == IF Len(args) > 1 THEN args[2].dict ELSE NoOpts
        name == ResolvedName(opts.title, opts.dir)
        n == NewNote(files, name, ok)
        found == FindNote(files, name)
        effects == IF n.exists THEN <<"Open", "NewNote", "FindNote">>
                   ELSE <<"Open", "NewNote">>
        applyEdit == IF opts.insert = "" THEN {}
                     ELSE {[method |-> "workspace/applyEdit", uri |-> opts.insert,
                            range |-> opts.range, note |-> name]}
        showDocument == IF opts.edit
                        THEN {[method |-> "window/showDocument", uri |-> "",
                               range |-> 0, note |-> name]}
                        ELSE {}
        Fail(fs, eff) == [resp |-> CommandError(cmdNew, eff), files |-> fs, calls |-> calls]
    IN IF Len(args) = 0 THEN Fail(files, <<>>)
       ELSE IF args[1].type # "string" THEN Fail(files, <<>>)
       ELSE IF Len(args) > 1 /\ args[2].type # "dict" THEN Fail(files, <<>>)
       ELSE IF Len(args) > 1 /\ ~opts.valid THEN Fail(files, <<>>)
       ELSE IF ~nbOk THEN Fail(files, <<"Open">>)
       ELSE IF ~DateParses(opts.date) THEN Fail(files, <<"Open">>)
       ELSE IF n.err /\ ~n.exists THEN Fail(files, effects)
       ELSE IF n.exists THEN Fail(files, effects)
       ELSE IF opts.insert # "" /\ store[opts.insert] = 0 THEN Fail(n.files, effects)
       ELSE [resp |-> CommandResponse(cmdNew, "path", FALSE, effects, name, ~n.exists),
             files |-> n.files,
             calls |-> calls \cup applyEdit \cup showDocument]

\* variant: the client is asked to show the note whatever the edit option
executeCommandNewAlwaysShows(args, ok) ==
    LET opts == IF Len(args) > 1 THEN args[2].dict ELSE NoOpts
        name == ResolvedName(opts.title, opts.dir)
        n == NewNote(files, name, ok)
        found == FindNote(files, name)
        effects == IF n.exists THEN <<"Open", "NewNote", "FindNote">>
                   ELSE <<"Open", "NewNote">>
        applyEdit == IF opts.insert = "" THEN {}
                     ELSE {[method |-> "workspace/applyEdit", uri |-> opts.insert,
                            range |-> opts.range, note |-> name]}
        showDocument == {[method |-> "window/showDocument", uri |-> "",
                          range |-> 0, note |-> name]}
        Fail(fs, eff) == [resp |-> CommandError(cmdNew, eff), files |-> fs, calls |-> calls]
    IN IF Len(args) = 0 THEN Fail(files, <<>>)
       ELSE IF args[1].type # "string" THEN Fail(files, <<>>)
       ELSE IF Len(args) > 1 /\ args[2].type # "dict" THEN Fail(files, <<>>)
       ELSE IF Len(args) > 1 /\ ~opts.valid THEN Fail(files, <<>>)
       ELSE IF ~nbOk THEN Fail(files, <<"Open">>)
       ELSE IF ~DateParses(opts.date) THEN Fail(files, <<"Open">>)
       ELSE IF n.err /\ ~n.exists THEN Fail(files, effects)
       ELSE IF n.exists /\ ~ok THEN Fail(files, effects)
       ELSE IF n.exists /\ ~found THEN Fail(files, effects)
       ELSE IF opts.insert # "" /\ store[opts.insert] = 0 THEN Fail(n.files, effects)
       ELSE [resp |-> CommandResponse(cmdNew, "path", FALSE, effects, name, ~n.exists),
             files |-> n.files,
             calls |-> calls \cup applyEdit \cup showDocument]

\* executeCommandNew: [resp, files, calls]
executeCommandNew(args, ok) ==
    LET opts == IF Len(args) > 1 THEN args[2].dict ELSE NoOpts
        name == ResolvedName(opts.title, opts.dir)
        n == NewNote(files, name, ok)
        found == FindNote(files, name)
        effects == IF n.exists THEN <<"Open", "NewNote", "FindNote">>
                   ELSE <<"Open", "NewNote">>
        applyEdit == IF opts.insert = "" THEN {}
                     ELSE {[method |-> "workspace/applyEdit", uri |-> opts.insert,
                            range |-> opts.range, note |-> name]}
        showDocument == IF opts.edit
                        THEN {[method |-> "window/showDocument", uri |-> "",
                               range |-> 0, note |-> name]}
                        ELSE {}
        Fail(fs, eff) == [resp |-> CommandError(cmdNew, eff), files |-> fs, calls |-> calls]
    IN IF Len(args) = 0 THEN Fail(files, <<>>)
       ELSE IF args[1].type # "string" THEN Fail(files, <<>>)
       ELSE IF Len(args) > 1 /\ args[2].type # "dict" THEN Fail(files, <<>>)
       ELSE IF Len(args) > 1 /\ ~opts.valid THEN Fail(files, <<>>)
       ELSE IF ~nbOk THEN Fail(files, <<"Open">>)
       ELSE IF ~DateParses(opts.date) THEN Fail(files, <<"Open">>)
       ELSE IF n.err /\ ~n.exists THEN Fail(files, effects)
       ELSE IF n.exists /\ ~ok THEN Fail(files, effects)
       ELSE IF n.exists /\ ~found THEN Fail(files, effects)
       ELSE IF opts.insert # "" /\ store[opts.insert] = 0 THEN Fail(n.files, effects)
       ELSE [resp |-> CommandResponse(cmdNew, "path", FALSE, effects, name, ~n.exists),
             files |-> n.files,
             calls |-> calls \cup applyEdit \cup showDocument]

\* handler.WorkspaceExecuteCommand on the request req
WorkspaceExecuteCommand(ok) ==
    /\ req.cmd # "none"
    /\ LET r == IF req.cmd = cmdIndex
                THEN [resp |-> executeCommandIndex(req.args), files |-> files,
                      calls |-> calls]
                ELSE IF req.cmd = cmdNew THEN executeCommandNew(req.args, ok)
                ELSE [resp |-> CommandError(req.cmd, <<>>), files |-> files,
                      calls |-> calls]
       IN /\ resp' = r.resp
          /\ files' = r.files
          /\ calls' = r.calls
    /\ UNCHANGED <<diagVars, cfgVars, resVars, line, format, catalog, req>>

\* a goroutine started by executeCommandNew sends its request to the client
ClientCall(c) ==
    /\ c \in calls
    /\ calls' = calls \ {c}
    /\ UNCHANGED <<diagVars, cfgVars, resVars, reqVars, req, files>>

\* any notebook, the document of the URI open or not, any request
InitCommand ==
    /\ \E u \in URIs, open \in BOOLEAN :
          /\ store = [v \in URIs |-> IF v = u /\ open THEN 1 ELSE 0]
          /\ docs = IF open THEN << NewDocument(u, 1) >> ELSE <<>>
    /\ cycles = <<>>
    /\ published = <<>>
    /\ nReq = 0
    /\ nReqClear = 0
    /\ nbOk \in BOOLEAN
    /\ index = DiagIndex
    /\ relOk = TRUE
    /\ deadLink = LSPDiagnosticNone
    /\ wikiTitle = LSPDiagnosticNone
    /\ link = NoLink
    /\ out = NoOut
    /\ line = NoLine
    /\ format = NoFormat
    /\ catalog = NoCatalog
    /\ resp = NoResp
    /\ req \in {[cmd |-> c, args |-> a] : c \in Commands, a \in ArgLists}
    /\ files \in [Names -> FileStates]
    /\ calls = {}

NextCommand ==
    \/ \E ok \in BOOLEAN : WorkspaceExecuteCommand(ok)
    \/ \E c \in calls : ClientCall(c)

SpecCommand == InitCommand /\ [][NextCommand]_vars

----------------------------------------------------------------------------
(* Claims about the resolver, checked under SpecResolve *)

Resolved == out.op = "noteForLink"
ExactAns == index.exact[PathKey(DocDir, link.Href)]
PartialAns == index.partial[link.Href]
TitleAns == index.title[link.Href]
Issued(q) == \E i \in DOMAIN out.queries : out.queries[i] = q
IsPrefix(s, t) == Len(s) <= Len(t) /\ \A i \in DOMAIN s : s[i] = t[i]

\* C7: for a wiki-style, non-URL link noteForLink issues its queries in the order
\* exact, partial, title; the partial query is issued exactly when the exact one
\* returned no note (and no error), the title query only when the partial one
\* returned no note; a query that returns a note ends the search and its note is
\* the result; when every strategy returns no note the result is absent, no error.
C7_WikiPrecedence ==
    (Resolved /\ link.IsWikiLink /\ ~IsURL(link.Href) /\ relOk) =>
        /\ IsPrefix(out.queries, <<QExact, QPartial, QTitle>>)
        /\ Issued(QExact)
        /\ Issued(QPartial) <=> ExactAns = NilAns
        /\ Issued(QTitle) => PartialAns = NilAns
        /\ (Issued(QPartial) /\ PartialAns = NilAns /\ link.Href # "") => Issued(QTitle)
        /\ ExactAns.note # 0 => (out.note = ExactAns.note /\ ~out.err)
        /\ (Issued(QPartial) /\ PartialAns.note # 0) =>
               (out.note = PartialAns.note /\ ~out.err)
        /\ (Issued(QTitle) /\ TitleAns.note # 0) =>
               (out.note = TitleAns.note /\ ~out.err)
        /\ (ExactAns = NilAns /\ PartialAns = NilAns /\ TitleAns = NilAns) =>
               (out.note = 0 /\ ~out.err)

\* C7 witness: a wiki link resolved by the title query after both path lookups
\* returned no note, although all three notes differ
C7_Witness ==
    /\ Resolved /\ link.IsWikiLink /\ ~IsURL(link.Href) /\ relOk
    /\ out.queries = <<QExact, QPartial, QTitle>>
    /\ TitleAns.note = 3 /\ out.note = 3

\* C8: for a link that is not wiki-style noteForLink issues at most the exact
\* lookup, never the partial or the title query, and the result is the exact
\* lookup's note: absent when that lookup finds none, whatever the others hold.
C8_NonWikiExactOnly ==
    (Resolved /\ ~link.IsWikiLink) =>
        /\ ~Issued(QPartial) /\ ~Issued(QTitle)
        /\ Len(out.queries) <= 1
        /\ (relOk /\ ~IsURL(link.Href)) =>
               (out.queries = <<QExact>> /\ out.note = ExactAns.note)
        /\ (ExactAns.note = 0 \/ ~Issued(QExact)) => out.note = 0

\* C8 witness: a non-wiki link left unresolved although a partial match and a
\* title match exist
C8_Witness ==
    /\ Resolved /\ ~link.IsWikiLink /\ ~IsURL(link.Href) /\ relOk
    /\ ExactAns = NilAns /\ PartialAns.note # 0 /\ TitleAns.note # 0
    /\ out.note = 0 /\ ~out.err /\ out.queries = <<QExact>>

\* C9 (as claimed): a link whose href is a URL, wiki-style or not, resolves to
\* absent without error and without any index query.
C9_UrlNeverQueried ==
    (Resolved /\ IsURL(link.Href)) =>
        (out.note = 0 /\ ~out.err /\ out.queries = <<>>)

FailedQuery ==
    \/ Issued(QExact) /\ ExactAns.err
    \/ Issued(QPartial) /\ PartialAns.err
    \/ Issued(QTitle) /\ TitleAns.err

\* C10 (as claimed): when an index lookup of the resolution fails, noteForLink
\* logs it and returns absent with no error, as for "not found".
C10_ErrorAsNotFound ==
    (Resolved /\ FailedQuery) => (out.note = 0 /\ ~out.err /\ out.logs # <<>>)

\* C10 (amended): when an index lookup of the resolution fails, it is the last
\* query issued and noteForLink returns absent together with the error; the
\* failure is logged by the resolver for the exact lookup and for the title
\* query, not for the partial lookup.
C10_ErrorPropagated ==
    (Resolved /\ FailedQuery) =>
        /\ out.note = 0 /\ out.err
        /\ (Issued(QTitle) /\ TitleAns.err) => out.logs = <<"findMatching">>
        /\ (~Issued(QTitle) /\ Issued(QPartial) /\ PartialAns.err) => out.logs = <<>>
        /\ (~Issued(QPartial) /\ ExactAns.err) =>
               (out.logs = <<"findByHref">> /\ out.queries = <<QExact>>)

\* C10 witness: the title query of a wiki link failed after two lookups that
\* found nothing, and the caller got the error
C10_Witness ==
    /\ Resolved /\ link.IsWikiLink
    /\ out.queries = <<QExact, QPartial, QTitle>> /\ TitleAns.err
    /\ out.err /\ out.note = 0

----------------------------------------------------------------------------
(* Claims about the diagnostics pipeline, checked under Spec *)

\* the goroutine is between the clearing of the flag and go notify(...)
Computing(c) == cycles[c].pc = "compute"
Terminated(c) == cycles[c].pc \in {"done", "failed"}
PublishedBy(c) == {i \in DOMAIN published : published[i].cycle = c}
Last(s) == s[Len(s)]

\* C1 (as claimed): at most one diagnostics computation is active for a document
\* at any time.
C1_OneComputationPerDocument ==
    \A c1, c2 \in DOMAIN cycles :
        (Computing(c1) /\ Computing(c2) /\ cycles[c1].doc = cycles[c2].doc) => c1 = c2

\* C2 (as claimed): the last notification published for a document was computed
\* from a text at least as recent as the text read by every cycle of that
\* document that has completed: an older cycle's result is never the final one.
C2_LastPublishedNotOlder ==
    published # <<>> =>
        \A c \in DOMAIN cycles :
            (cycles[c].pc = "done" /\ cycles[c].doc = cycles[Last(published).cycle].doc)
                => cycles[c].ver <= Last(published).ver

\* no goroutine is pending or failed, and refresh requests were not refused
QuietAndHealthy ==
    /\ nbOk /\ ~NoDiagnosticEnabled(wikiTitle, deadLink)
    /\ \A c \in DOMAIN cycles : cycles[c].pc = "done"

\* C3 (as claimed, at the end of a run): once every cycle has completed, the
\* publication that comes last for each document is one computed from a text
\* containing all its changes.
C3_LatestTextPublishedLast ==
    QuietAndHealthy =>
        \A d \in DOMAIN docs :
            \A i \in DOMAIN published :
                (/\ cycles[published[i].cycle].doc = d
                 /\ \A j \in DOMAIN published :
                        cycles[published[j].cycle].doc = d => j <= i)
                    => published[i].ver = docs[d].ver

\* C4: a refresh request that finds the flag set starts no goroutine and leaves
\* nothing behind; a goroutine starts only in a step that is a refresh request
\* which found the flag clear, so the goroutines started never outnumber such
\* requests and none starts without a new open/change notification.
C4_DroppedNotQueued ==
    [][ /\ (nReq' = nReq + 1 /\ nReqClear' = nReqClear) =>
              (cycles' = cycles /\ \A d \in DOMAIN docs : docs'[d].flag = docs[d].flag)
        /\ cycles' # cycles /\ Len(cycles') # Len(cycles) =>
              (/\ Len(cycles') = Len(cycles) + 1
               /\ nReq' = nReq + 1
               /\ nReqClear' = nReqClear + 1)
        /\ Len(cycles') <= nReqClear' ]_vars

\* C4 witness: a change was dropped while the only cycle was pending, that cycle
\* has finished, and no second cycle exists
C4_Witness ==
    /\ nReq = 2 /\ nReqClear = 1
    /\ Len(cycles) = 1 /\ cycles[1].pc = "done"
    /\ docs[1].ver = 1

\* C5: with both severities "none", no refresh flag is ever set, no goroutine is
\* started (so no links are extracted and no index query is issued) and
\* nothing is published.
C5_NoneDisablesCycle ==
    (wikiTitle = LSPDiagnosticNone /\ deadLink = LSPDiagnosticNone) =>
        /\ cycles = <<>>
        /\ published = <<>>
        /\ \A d \in DOMAIN docs : ~docs[d].flag

\* C5 witness: both severities "none", the notebook opens, a document was
\* opened and changed
C5_Witness ==
    /\ wikiTitle = LSPDiagnosticNone /\ deadLink = LSPDiagnosticNone /\ nbOk
    /\ nReq >= 2 /\ Len(docs) >= 1 /\ docs[1].ver >= 1

\* C6 (as claimed): every cycle that has ended has published exactly one
\* notification.
C6_EveryCyclePublishesOnce ==
    \A c \in DOMAIN cycles : Terminated(c) => Cardinality(PublishedBy(c)) = 1

\* C6 (amended): a cycle whose link extraction succeeded can always go on to
\* publish, and once it has ended it has published exactly one notification,
\* under its document's URI and carrying its computed list, empty or not; a
\* cycle whose extraction failed has published nothing; no cycle publishes
\* before it ends.
C6_PublishesOnceUnlessExtractionFails ==
    \A c \in DOMAIN cycles :
        /\ cycles[c].pc = "done" =>
              /\ Cardinality(PublishedBy(c)) = 1
              /\ \A i \in PublishedBy(c) :
                    /\ published[i].uri = docs[cycles[c].doc].uri
                    /\ published[i].diags = cycles[c].diags
                    /\ published[i].diags =
                          diagnoseLinks(DocumentLinks(cycles[c].body), DocDir, index,
                                        relOk, deadLink, wikiTitle).diags
        /\ cycles[c].pc # "done" => PublishedBy(c) = {}
        /\ cycles[c].pc = "notify" => ENABLED Notify(c)

\* C6 witness: two cycles in a row published the empty list
C6_Witness ==
    /\ Len(published) >= 2
    /\ published[1].diags = <<>> /\ published[2].diags = <<>>
    /\ published[1].cycle # published[2].cycle

----------------------------------------------------------------------------
(* Claims about the loop body of the diagnostics cycle, under SpecResolve *)

Diagnosed == out.op = "diagnoseLink"
\* what noteForLink answers for the drawn link
Target == noteForLink(link, DocDir, index, relOk)
DeadLinkDiag == << Diagnostic(link, deadLink, "not found") >>

\* C11 (as claimed): a link yields at most one diagnostic decided by (URL,
\* resolved, explicit title, severities) alone: none for a URL; for an
\* unresolved non-URL link the dead-link diagnostic iff that severity is not
\* "none"; for a resolved link the title diagnostic iff it has no explicit title
\* and the wiki-title severity is not "none".
C11_DecidedByResolution ==
    Diagnosed =>
        /\ IsURL(link.Href) => out.diags = <<>>
        /\ (~IsURL(link.Href) /\ Target.note = 0) =>
               out.diags = IF deadLink # LSPDiagnosticNone THEN DeadLinkDiag ELSE <<>>
        /\ (~IsURL(link.Href) /\ Target.note # 0) =>
               out.diags = IF ~link.HasTitle /\ wikiTitle # LSPDiagnosticNone
                           THEN << Diagnostic(link, wikiTitle, Titles[Target.note]) >>
                           ELSE <<>>

\* C11 (amended): as claimed, except that a non-URL link whose resolution
\* returned an error yields no diagnostic (the error is logged); every
\* diagnostic carries the link's own range.
C11_DecidedByResolutionOrError ==
    Diagnosed =>
        /\ Len(out.diags) <= 1
        /\ \A i \in DOMAIN out.diags : out.diags[i].Range = link.Range
        /\ IsURL(link.Href) => (out.diags = <<>> /\ out.queries = <<>>)
        /\ (~IsURL(link.Href) /\ Target.err) => (out.diags = <<>> /\ out.logs # <<>>)
        /\ (~IsURL(link.Href) /\ ~Target.err /\ Target.note = 0) =>
               out.diags = IF deadLink # LSPDiagnosticNone THEN DeadLinkDiag ELSE <<>>
        /\ (~IsURL(link.Href) /\ Target.note # 0) =>
               out.diags = IF ~link.HasTitle /\ wikiTitle # LSPDiagnosticNone
                           THEN << Diagnostic(link, wikiTitle, Titles[Target.note]) >>
                           ELSE <<>>

\* C11 witness: a resolved link with an explicit title gets no diagnostic
\* although the wiki-title severity is enabled
C11_Witness ==
    /\ Diagnosed /\ ~IsURL(link.Href) /\ Target.note = 2 /\ link.HasTitle
    /\ wikiTitle # LSPDiagnosticNone /\ out.diags = <<>>

----------------------------------------------------------------------------
(* Claims about the order of the steps of one cycle, under Spec *)

\* the step starts a goroutine
Spawns == Len(cycles') = Len(cycles) + 1
Spawned == cycles'[Len(cycles')]
\* the step is a didOpen (a document is created) / applies a change
OpenStep == Len(docs') = Len(docs) + 1
ChangeStep(d) == Len(docs') = Len(docs) /\ docs'[d].ver = docs[d].ver + 1
Moves(c, from, to) == c \in DOMAIN cycles /\ cycles[c].pc = from /\ cycles'[c].pc = to

\* C19: the steps of a cycle are ordered. The handler that starts the cycle
\* sets the flag, and the flag stays set while the cycle sleeps; the cycle has
\* the debounce delay iff a change started it (then the change was applied
\* first), never for an open; the flag is cleared in the step that ends the
\* sleep, which precedes the extraction; the extraction reads the text the
\* document holds at that moment.
C19_CycleStepsOrdered ==
    /\ [](\A c \in DOMAIN cycles : cycles[c].pc = "start" => docs[cycles[c].doc].flag)
    /\ [][/\ Spawns =>
               /\ Spawned.pc = "start" /\ docs'[Spawned.doc].flag
               /\ Spawned.delay <=> ~OpenStep
               /\ Spawned.delay => ChangeStep(Spawned.doc)
          /\ \A c \in DOMAIN cycles :
               /\ cycles'[c].pc # cycles[c].pc =>
                     \/ Moves(c, "start", "compute") /\ ~docs'[cycles[c].doc].flag
                     \/ Moves(c, "compute", "notify") \/ Moves(c, "compute", "failed")
                     \/ Moves(c, "notify", "done")
               /\ Moves(c, "compute", "notify") =>
                     LET d == docs[cycles[c].doc]
                     IN /\ cycles'[c].ver = d.ver /\ cycles'[c].body = d.body
                        /\ cycles'[c].diags =
                             diagnoseLinks(DocumentLinks(d.body), DocDir, index,
                                           relOk, deadLink, wikiTitle).diags]_vars

\* C19 witness: a change-started cycle whose result has the text of a later
\* change, the one whose refresh request was dropped while the cycle slept
C19_Witness ==
    /\ Len(cycles) = 2 /\ cycles[2].delay /\ cycles[2].pc = "done"
    /\ cycles[2].ver = 2 /\ nReq = 3 /\ nReqClear = 2
    /\ \E i \in DOMAIN published : published[i].cycle = 2 /\ published[i].ver = 2

----------------------------------------------------------------------------
(* Claims about completion, under SpecCompletion *)

Completed == resp.op = "completion"
EndsWith(text, s) ==
    Len(text) >= Len(s) /\ SubSeq(text, Len(text) - Len(s) + 1, Len(text)) = s
LinkList == Completed /\ resp.kind = "link" /\ ~resp.err
TagList == Completed /\ resp.kind = "tag" /\ ~resp.err
Cursor == Len(line.before)
Closer == IF Len(line.after) >= 2 THEN SubSeq(line.after, 1, 2) ELSE <<>>

\* C13: with the notebook of the document at hand, the text before the cursor
\* selects the completion: "]((" link completion with the markdown formatter
\* in parentheses, else "[[" link completion with the notebook's formatter,
\* else "#" tag completion if hashtags are enabled, ":" tag completion if colon
\* tags are enabled; in every other case no completions and no error.
C13_TriggerClassification ==
    (Completed /\ nbOk) =>
        IF EndsWith(line.before, <<"]", "(", "(">>)
        THEN resp.kind = "link" /\ resp.formatter = MarkdownParens
        ELSE IF EndsWith(line.before, <<"[", "[">>)
        THEN resp.kind = "link" /\ resp.formatter = DefaultFormatter
        ELSE IF EndsWith(line.before, <<"#">>) /\ format.Hashtags
        THEN resp.kind = "tag" /\ resp.trigger = "#"
        ELSE IF EndsWith(line.before, <<":">>) /\ format.ColonTags
        THEN resp.kind = "tag" /\ resp.trigger = ":"
        ELSE resp.kind = "none" /\ resp.result = "nil" /\ ~resp.err

\* C13 witness: a ":" before the cursor with colon tags disabled (and hashtags
\* enabled) completes nothing
C13_Witness ==
    /\ Completed /\ nbOk /\ EndsWith(line.before, <<"[", ":">>)
    /\ ~format.ColonTags /\ format.Hashtags
    /\ resp.kind = "none" /\ resp.result = "nil" /\ ~resp.err

\* C14 (as claimed): the primary edit of a link completion item starts at the
\* cursor; it ends at cursor + 2 when "]]" follows the cursor and at the cursor
\* when anything else follows.
C14_EndAfterWikiCloserOnly ==
    LinkList =>
        \A i \in DOMAIN resp.items :
            LET rng == resp.items[i].TextEdit.Range
            IN /\ rng.Start = Position(line)
               /\ rng.End.Line = rng.Start.Line
               /\ rng.End.Character =
                     IF Closer = <<"]", "]">> THEN U32(Cursor + 2) ELSE U32(Cursor)

\* C14 (amended): the primary edit starts at the cursor; it ends at cursor + 2
\* when "]]" or "))" follows the cursor and at the cursor otherwise.
C14_EndAfterCloser ==
    LinkList =>
        \A i \in DOMAIN resp.items :
            LET rng == resp.items[i].TextEdit.Range
            IN /\ rng.Start = Position(line)
               /\ rng.End.Line = rng.Start.Line
               /\ rng.End.Character =
                     IF Closer = <<"]", "]">> \/ Closer = <<")", ")">>
                     THEN U32(Cursor + 2) ELSE U32(Cursor)

\* C14 witness: an item whose edit consumes the "))" after the cursor
C14_Witness ==
    /\ LinkList /\ resp.items # <<>> /\ line.after = <<")", ")", "]">>
    /\ resp.items[1].TextEdit.Range.End.Character = U32(Cursor + 2)

\* every space of text follows a backslash, and text without those
\* backslashes is name
RECURSIVE Unescaped(_)
Unescaped(text) ==
    IF text = <<>> THEN <<>>
    ELSE IF Len(text) >= 2 /\ text[1] = "\\" /\ text[2] = " "
    THEN <<" ">> \o Unescaped(Tail(Tail(text)))
    ELSE <<Head(text)>> \o Unescaped(Tail(text))
Escapes(text, name) ==
    /\ \A i \in DOMAIN text : text[i] = " " => (i > 1 /\ text[i - 1] = "\\")
    /\ Unescaped(text) = name

\* C15 (as claimed): the label of a tag item is the tag name; for ":" the
\* insert text is the name followed by ":"; for "#" it is the name followed by
\* "#" when multi-word tags are enabled, and the name with every space escaped
\* otherwise.
C15_HashtagClosedWhenMultiword ==
    TagList =>
        \A i \in DOMAIN resp.items :
            LET name == catalog.tags[i]
                item == resp.items[i]
            IN /\ item.Label = name
               /\ resp.trigger = ":" => item.InsertText = name \o <<":">>
               /\ (resp.trigger = "#" /\ format.MultiwordTags) =>
                     item.InsertText = name \o <<"#">>
               /\ (resp.trigger = "#" /\ ~format.MultiwordTags) =>
                     Escapes(item.InsertText, name)

\* C15 (amended): as claimed, except that for "#" a name without a space is
\* inserted unchanged, whether or not multi-word tags are enabled.
C15_HashtagClosedWhenSpaced ==
    TagList =>
        /\ Len(resp.items) = Len(catalog.tags)
        /\ \A i \in DOMAIN resp.items :
            LET name == catalog.tags[i]
                item == resp.items[i]
            IN /\ item.Label = name
               /\ resp.trigger = ":" => item.InsertText = name \o <<":">>
               /\ (resp.trigger = "#" /\ ~Contains(name, " ")) =>
                     item.InsertText = name
               /\ (resp.trigger = "#" /\ Contains(name, " ") /\ format.MultiwordTags) =>
                     item.InsertText = name \o <<"#">>
               /\ (resp.trigger = "#" /\ Contains(name, " ") /\ ~format.MultiwordTags) =>
                     Escapes(item.InsertText, name)

\* C15 witness: with multi-word tags enabled the one-word tag is inserted as
\* it is and the two-word tag gets the closing "#"
C15_Witness ==
    /\ TagList /\ resp.trigger = "#" /\ format.MultiwordTags
    /\ resp.items[1].InsertText = <<"a">>
    /\ resp.items[2].InsertText = <<"b", " ", "c", "#">>

\* C22: every link completion item has exactly one additional text edit, with
\* empty text, on the line of the cursor from character cursor - 2 to the
\* cursor; link completion is reached only with at least two characters
\* before the cursor, so the unsigned subtraction does not wrap: the start is
\* below 2^16 and two characters before the end.
C22_TriggerDeleted ==
    LinkList =>
        /\ Cursor >= 2
        /\ \A i \in DOMAIN resp.items :
              LET edits == resp.items[i].AdditionalTextEdits
              IN /\ Len(edits) = 1
                 /\ edits[1].NewText = ""
                 /\ edits[1].Range.End = Position(line)
                 /\ edits[1].Range.Start.Line = Position(line).Line
                 /\ edits[1].Range.Start.Character.hi = 0
                 /\ edits[1].Range.Start.Character.lo + 2 = Cursor

\* C22 witness: the "[[" is all there is before the cursor and the additional
\* edit of an item starts at character 0
C22_Witness ==
    /\ LinkList /\ resp.items # <<>> /\ line.before = <<"[", "[">>
    /\ resp.items[1].AdditionalTextEdits[1].Range.Start.Character = U32(0)

----------------------------------------------------------------------------
(* Claims about the diagnostics machine under fair scheduling, SpecFair *)

\* C23: under fair scheduling a document's refresh flag, once set, is
\* eventually cleared, whatever the cycle goes on to do (publish, or fail at
\* link extraction and publish nothing); a set flag always has a goroutine
\* that is about to clear it.
C23_FlagEventuallyCleared ==
    /\ \A d \in 1..MaxEvents :
          (d \in DOMAIN docs /\ docs[d].flag) ~> (d \in DOMAIN docs /\ ~docs[d].flag)
    /\ [](\A d \in DOMAIN docs :
            docs[d].flag =>
                \E c \in DOMAIN cycles : cycles[c].doc = d /\ cycles[c].pc = "start")

\* C23 witness: after a cycle that failed at link extraction, a later
\* notification for the same document has started a new cycle
C23_Witness ==
    /\ Len(cycles) >= 2
    /\ cycles[1].pc = "failed"
    /\ cycles[2].doc = cycles[1].doc
    /\ cycles[2].pc = "compute"
    /\ ~docs[cycles[1].doc].flag

----------------------------------------------------------------------------
(* Claims about the loops over lists, under SpecLists *)

\* the elements of seq at the positions of S, in order
Sub(seq, S) ==
    [i \in 1..Cardinality(S) |->
        seq[CHOOSE k \in S : Cardinality({j \in S : j <= k}) = i]]

TargetOf(lk) == noteForLink(lk, DocDir, index, relOk)
\* the link gets a diagnostic of its own
Flagged(lk) == diagnoseLink(lk, DocDir, index, relOk, deadLink, wikiTitle).diags # <<>>
Resolves(lk) == ~TargetOf(lk).err /\ TargetOf(lk).note # 0
Renders(note) == note.renders
\* an element of the list fails: the resolution of a link, the rendering of a note
LinkFails(lk) == ~IsURL(lk.Href) /\ TargetOf(lk).err
ListedLinks == DocumentLinks(docs[1].body)
FlaggedLinks == Sub(ListedLinks, {i \in DOMAIN ListedLinks : Flagged(ListedLinks[i])})
ResolvedLinks == Sub(ListedLinks, {i \in DOMAIN ListedLinks : Resolves(ListedLinks[i])})
RenderedNotes == Sub(catalog.notes, {i \in DOMAIN catalog.notes : Renders(catalog.notes[i])})

\* C16: a failure on one element of a list is skipped, never surfaced. The
\* diagnostics of a cycle are those of the links that get one, in the order of
\* the links, nothing for a link whose resolution failed; the documentLink
\* response has one entry per link that resolves, in order, and no error; the
\* link completion response has one item per note that renders, in order, and
\* no error.
C16_FailingElementSkipped ==
    /\ \A c \in DOMAIN cycles :
          cycles[c].pc \in {"notify", "done"} =>
              /\ Len(cycles[c].diags) = Len(FlaggedLinks)
              /\ \A i \in DOMAIN cycles[c].diags :
                    /\ cycles[c].diags[i].Range = FlaggedLinks[i].Range
                    /\ ~LinkFails(FlaggedLinks[i])
    /\ (resp.op = "documentLink" /\ resp.result = "items") =>
          /\ ~resp.err
          /\ Len(resp.items) = Len(ResolvedLinks)
          /\ \A i \in DOMAIN resp.items :
                /\ resp.items[i].Range = ResolvedLinks[i].Range
                /\ resp.items[i].Target = TargetOf(ResolvedLinks[i]).note
    /\ (resp.op = "completion" /\ ~catalog.err) =>
          /\ ~resp.err /\ resp.result = "items"
          /\ Len(resp.items) = Len(RenderedNotes)
          /\ \A i \in DOMAIN resp.items :
                resp.items[i].Data = RenderedNotes[i].id

\* C16 witness: the lookup of the second link fails and the third link is
\* still diagnosed as dead by the cycle; the second note fails to render and
\* the completion list has the first and the third
C16_Witness ==
    /\ cycles[1].pc = "done" /\ ListedLinks # <<>> /\ LinkFails(ListedLinks[2])
    /\ Len(cycles[1].diags) = 1 /\ cycles[1].diags[1].Range = ListedLinks[3].Range
    /\ resp.op = "completion" /\ ~resp.err /\ ~catalog.notes[2].renders
    /\ Len(resp.items) = 2 /\ resp.items[1].Data = 1 /\ resp.items[2].Data = 3

----------------------------------------------------------------------------
(* Claims about the handlers, under SpecHandlers *)

\* the step handles a request or a didSave for uri
Answered(uri) == resp' # resp /\ resp'.uri = uri
RequestOps == {"completion", "hover", "documentLink", "definition", "references",
               "codeAction"}

\* C18: a handler invoked for a URI without an open document misses cleanly.
\* didChange takes no step (no edit, no cycle); didSave and the requests
\* completion, hover, documentLink, definition, references and codeAction
\* answer nothing, with no error and no collaborator call (no notebook, no
\* index query, no reindex), and change no document, flag or cycle.
C18_MissesCleanly ==
    /\ [](\A uri \in URIs : store[uri] = 0 =>
             \A body \in Bodies : ~ENABLED TextDocumentDidChange(uri, body))
    /\ [][\A uri \in URIs :
             (store[uri] = 0 /\ Answered(uri)) =>
                 /\ resp'.op \in RequestOps \cup {"didSave"}
                 /\ resp'.result = "nil" /\ ~resp'.err /\ resp'.effects = <<>>
                 /\ UNCHANGED <<diagVars, cfgVars>>]_vars

\* C18 witness: a didSave for a document closed while its cycle is pending
C18_Witness ==
    /\ Len(docs) = 1 /\ store[docs[1].uri] = 0 /\ Len(cycles) = 1
    /\ resp = Miss("didSave", docs[1].uri)

\* a flag goes from clear to set in the step
FlagSet ==
    \E d \in DOMAIN docs' : docs'[d].flag /\ (d \in DOMAIN docs => ~docs[d].flag)
CloseStep == \E uri \in URIs : store[uri] # 0 /\ store'[uri] = 0

\* C20: a flag is set and a cycle is started only by a didOpen step (no
\* debounce) or by a didChange step (debounce, the change applied in the same
\* step before the request); a didClose step, a didSave step and every request
\* step leave the flags and the cycles as they are; a didSave does nothing but
\* the non-forced reindex of the notebook of the document.
C20_OnlyOpenAndChangeStartCycles ==
    [][/\ (Spawns \/ FlagSet) =>
            /\ Spawns /\ docs'[Spawned.doc].flag /\ resp' = resp
            /\ \/ OpenStep /\ ~Spawned.delay /\ Spawned.doc = Len(docs')
               \/ ChangeStep(Spawned.doc) /\ Spawned.delay
       /\ CloseStep => UNCHANGED <<docs, cycles, published, resp>>
       /\ resp' # resp => UNCHANGED <<diagVars, cfgVars>>
       /\ (resp' # resp /\ resp'.op = "didSave") =>
            /\ ~resp'.err
            /\ resp'.effects =
                 IF store[resp'.uri] = 0 THEN <<>>
                 ELSE IF ~nbOk THEN <<"notebookOf">>
                 ELSE <<"notebookOf", "Index(force=false)">>]_vars

\* C20 witness: a didSave has reindexed while the cycle of the open document
\* is pending with the flag set, and no second cycle exists
C20_Witness ==
    /\ resp.op = "didSave" /\ resp.effects = <<"notebookOf", "Index(force=false)">>
    /\ Len(cycles) = 1 /\ cycles[1].pc = "start" /\ docs[cycles[1].doc].flag

----------------------------------------------------------------------------
(* Claims about the commands, under SpecCommand *)

Options == IF Len(req.args) > 1 THEN req.args[2].dict ELSE NoOpts
Requested == ResolvedName(Options.title, Options.dir)
\* a zk.new request whose arguments and notebook the executor accepts
WellFormedNew ==
    /\ req.cmd = cmdNew /\ Len(req.args) > 0 /\ req.args[1].type = "string"
    /\ Len(req.args) > 1 => (req.args[2].type = "dict" /\ Options.valid)
    /\ DateParses(Options.date) /\ nbOk
    /\ Options.insert # "" => store[Options.insert] # 0
Returned == resp.op = cmdNew /\ ~resp.err
\* an invocation that meets no collaborator failure returns the requested note
\* and leaves the notebook as it is
ReturnsExisting ==
    /\ WorkspaceExecuteCommand(TRUE)
    /\ ~resp'.err /\ resp'.result = "path" /\ resp'.path = Requested
    /\ ~resp'.created /\ files' = files

\* C12: create-note is create-or-find. A returned path is that of the note of
\* the name resolved from title and directory, which is in the notebook; an
\* invocation that follows a successful one with the same arguments adds no
\* note and, unless a collaborator fails, returns the same path; when the note
\* of the resolved name exists, the executor looks it up and returns its path
\* instead of an error.
C12_CreateOrFind ==
    /\ [](Returned => (resp.path = Requested /\ files[Requested] = "note"))
    /\ []((WellFormedNew /\ files[Requested] = "note") => ENABLED ReturnsExisting)
    /\ [][(Returned /\ resp' # resp) =>
             /\ files' = files
             /\ ~resp'.err => (resp'.path = resp.path /\ ~resp'.created)]_vars

\* C12 witness: the second invocation has found the note that the first one
\* created (its show-document request is still pending) and returned its path
C12_Witness ==
    /\ Returned /\ ~resp.created /\ resp.path = ResolvedName("t", "d")
    /\ resp.effects = <<"Open", "NewNote", "FindNote">>
    /\ calls # {}

Malformed ==
    \/ req.cmd \notin {cmdIndex, cmdNew}
    \/ Len(req.args) = 0
    \/ req.args[1].type # "string"
    \/ Len(req.args) > 1 /\ req.args[2].type # "dict"
    \/ req.cmd = cmdNew /\ ~DateParses(Options.date)
IndexRun ==
    \E i \in DOMAIN resp.effects :
        resp.effects[i] \in {"Index(force=true)", "Index(force=false)"}

\* C17: a malformed workspace/executeCommand request (unknown command, missing
\* or non-string first argument, options that are no dictionary, for zk.new an
\* unparsable date) is answered with an error and changes nothing: no reindex,
\* no note created, no request sent to the client.
C17_MalformedRejected ==
    /\ []((Malformed /\ resp.op # "none") => (resp.err /\ ~IndexRun /\ calls = {}))
    /\ [][Malformed => (files' = files /\ calls' = calls)]_vars

\* the requests to the client that a successful zk.new on req starts
ApplyEditCalls ==
    IF Options.insert = "" THEN {}
    ELSE {[method |-> "workspace/applyEdit", uri |-> Options.insert,
           range |-> Options.range, note |-> Requested]}
ShowDocumentCalls ==
    IF Options.edit
    THEN {[method |-> "window/showDocument", uri |-> "", range |-> 0,
           note |-> Requested]}
    ELSE {}

\* C21: a zk.new that succeeds starts an apply-edit request iff the option
\* insertLinkAtLocation is present, for the URI and the range of that option
\* and the link to the note, and a show-document request iff edit is set;
\* both are left to goroutines: the step that answers {path} adds them to the
\* pending requests and sends nothing, a failing command starts no request,
\* and a request is sent in a later step of its own. The path is that of the
\* requested note, created or found.
C21_ClientRequestsInBackground ==
    /\ [](Returned => resp.path = Requested)
    /\ [][/\ resp' # resp =>
               /\ calls \subseteq calls'
               /\ calls' = IF resp'.op = cmdNew /\ ~resp'.err
                            THEN calls \cup ApplyEditCalls \cup ShowDocumentCalls
                            ELSE calls
          /\ calls' # calls =>
               \/ \E c \in calls : calls' = calls \ {c} /\ resp' = resp
               \/ /\ calls' = calls \cup ApplyEditCalls \cup ShowDocumentCalls
                  /\ resp'.op = cmdNew /\ ~resp'.err]_vars

\* C21 witness: the path of a found note has been returned while the
\* apply-edit and the show-document request are both still to be sent
C21_Witness ==
    /\ Returned /\ ~resp.created /\ resp.result = "path"
    /\ \E a \in calls : a.method = "workspace/applyEdit" /\ a.range = 2
    /\ \E c \in calls : c.method = "window/showDocument"

----------------------------------------------------------------------------
(* Claims about closed documents, under SpecFair *)

Unfinished(c) == cycles[c].pc \in {"start", "compute", "notify"}
Closed(d) == store[docs[d].uri] # d

\* C24: a didClose cancels and resets nothing: it leaves the documents' state,
\* the cycles and the publications as they are, and a cycle of a closed
\* document takes its steps like any other: each unfinished cycle has its next
\* step, up to a publication for the URI of its own document. A didOpen makes
\* a new document with a clear flag and starts its cycle whatever the earlier
\* documents of the URI and their cycles are doing, and leaves them alone.
C24_CloseCancelsNothing ==
    /\ [](\A c \in DOMAIN cycles :
            /\ cycles[c].pc = "start" => ENABLED CycleClearFlag(c)
            /\ cycles[c].pc = "compute" => ENABLED (\E ok \in BOOLEAN : CycleCompute(c, ok))
            /\ cycles[c].pc = "notify" => ENABLED Notify(c))
    /\ [][/\ CloseStep => UNCHANGED <<docs, cycles, published>>
          /\ \A c \in DOMAIN cycles :
                Moves(c, "notify", "done") =>
                    /\ Len(published') = Len(published) + 1
                    /\ published'[Len(published')].uri = docs[cycles[c].doc].uri
                    /\ published'[Len(published')].cycle = c
          /\ OpenStep =>
                /\ \A d \in DOMAIN docs : docs'[d] = docs[d]
                /\ \A c \in DOMAIN cycles : cycles'[c] = cycles[c]
                /\ Spawns <=> nbOk /\ ~NoDiagnosticEnabled(wikiTitle, deadLink)
                /\ Spawns => Spawned.doc = Len(docs') /\ Spawned.pc = "start"]_vars

\* C24 witness: after the close and the reopening, a cycle of the closed
\* document is about to publish for its URI, while another cycle of the closed
\* document and the cycle of the reopened one are both computing
C24_Witness ==
    /\ Len(docs) = 2 /\ docs[1].uri = docs[2].uri /\ Closed(1) /\ ~Closed(2)
    /\ Len(cycles) = 3
    /\ cycles[1].doc = 1 /\ cycles[2].doc = 1 /\ cycles[3].doc = 2
    /\ cycles[1].pc = "notify" /\ ENABLED Notify(1)
    /\ cycles[2].pc = "compute" /\ cycles[3].pc = "compute"
    /\ ~docs[2].flag

====
